---- MODULE Spec2Model ----
(***************************************************************************)
(* A model of v4l2ctl/v4l2device.py: the V4l2Device facade (buffer-type    *)
(* selection, cropping accessors), the index-driven enumerations           *)
(* (iter_buffer_formats / formats, V4l2Format.sizes) and device discovery  *)
(* (V4l2DeviceIterator).  The kernel and the ioctl transport are the       *)
(* environment: every ioctl either succeeds or fails with an errno.        *)
(***************************************************************************)
EXTENDS Integers, Sequences, FiniteSets, TLC

VARIABLES
    constructed,             \* "none" | "ok" | "OSError" | "IndexError": how V4l2Device.__init__ ended
    supported_buffer_types,  \* self._supported_buffer_types (a list)
    buffer_type,             \* self._buffer_type
    last,                    \* the last accessor call on the facade: its outcome and its ioctl calls
    gens,                    \* the generators obtained from formats / sizes()
    fs,                      \* /dev: name -> "absent" | "file" | the name its symlink points to
    dev_caps,                \* per /dev name: whether it opens as a video device, and its capability set
    skip_links,              \* V4l2DeviceIterator._skip_links
    it_state,                \* "none" | "created" | "running" | "done" | "raised": the discovery generator
    collected,               \* dev_list as globbed (before link removal)
    dev_list,                \* dev_list after link removal
    pos,                     \* how many entries of dev_list the for loop has consumed
    attempted,               \* the paths V4l2Device(dev) was attempted for
    yielded                  \* the paths of the facades yielded

facadeVars == <<constructed, supported_buffer_types, buffer_type, last, gens>>
discoveryVars == <<fs, dev_caps, skip_links, it_state, collected, dev_list, pos, attempted, yielded>>
vars == <<constructed, supported_buffer_types, buffer_type, last, gens,
          fs, dev_caps, skip_links, it_state, collected, dev_list, pos, attempted, yielded>>

Range(s) == {s[i] : i \in 1..Len(s)}

-----------------------------------------------------------------------------
(* V4l2BufferType: the members in declaration order; a member's value is   *)
(* its position (the kernel's enum v4l2_buf_type).  It is an IntEnum: a    *)
(* member equals its integer value.                                        *)
V4l2BufferTypeNames ==
    << "VIDEO_CAPTURE", "VIDEO_OUTPUT", "VIDEO_OVERLAY", "VBI_CAPTURE",
       "VBI_OUTPUT", "SLICED_VBI_CAPTURE", "SLICED_VBI_OUTPUT",
       "VIDEO_OUTPUT_OVERLAY", "VIDEO_CAPTURE_MPLANE", "VIDEO_OUTPUT_MPLANE",
       "SDR_CAPTURE", "SDR_OUTPUT", "META_CAPTURE" >>

V4l2BufferType == 1..Len(V4l2BufferTypeNames)

BT(name) == CHOOSE v \in V4l2BufferType : V4l2BufferTypeNames[v] = name

\* V4l2Device.cropping_buffer_types
cropping_buffer_types ==
    << BT("VIDEO_CAPTURE"), BT("VIDEO_CAPTURE_MPLANE"), BT("VIDEO_OUTPUT"),
       BT("VIDEO_OUTPUT_MPLANE"), BT("VIDEO_OVERLAY") >>

\* The buffer types the modelled devices may report as capabilities.
DeviceTypes == {BT("VIDEO_CAPTURE"), BT("VBI_CAPTURE"), BT("VIDEO_OUTPUT_MPLANE")}

\* The values a caller assigns to buffer_type: members (by value), and two
\* integers that are no member's value.
SetterInputs == DeviceTypes \cup {BT("VIDEO_OUTPUT"), 0, Len(V4l2BufferTypeNames) + 1}

\* The errnos a failing ioctl reports: EIO, EINVAL, ENOTTY.
Errnos == {5, 22, 25}

\* An ioctl's outcome: 0 is success.
IoctlOutcomes == {0} \cup Errnos

-----------------------------------------------------------------------------
(* str(e) of an IoctlError: "[Errno N] ...", as a sequence of characters.  *)
Digit(d) == CASE d = 0 -> "0" [] d = 1 -> "1" [] d = 2 -> "2" [] d = 3 -> "3"
              [] d = 4 -> "4" [] d = 5 -> "5" [] d = 6 -> "6" [] d = 7 -> "7"
              [] d = 8 -> "8" [] d = 9 -> "9"

RECURSIVE Decimal(_)
Decimal(n) == IF n < 10 THEN <<Digit(n)>> ELSE Decimal(n \div 10) \o <<Digit(n % 10)>>

IoctlErrorStr(errno) == <<"[", "E", "r", "r", "n", "o", " ">> \o Decimal(errno) \o <<"]">>

\* Python's `sub in s` on strings
Contains(s, sub) ==
    \E i \in 1..(Len(s) - Len(sub) + 1) : SubSeq(s, i, i + Len(sub) - 1) = sub

Errno22 == <<"E", "r", "r", "n", "o", " ", "2", "2">>
Errno25 == <<"E", "r", "r", "n", "o", " ", "2", "5">>

-----------------------------------------------------------------------------
(* V4l2Device.__init__                                                     *)

\* [buftype for buftype in V4l2BufferType if V4l2Capabilities[buftype.name] in caps]
SupportedBufferTypes(caps) ==
    SelectSeq([v \in V4l2BufferType |-> v], LAMBDA v : v \in caps)

\* How construction ends for a device file: VidIocOps / query_cap raise
\* OSError when it cannot be opened as a video device; otherwise it reports
\* the capability set caps.
InitOutcome(openable, caps) ==
    IF ~openable THEN "OSError"
    ELSE IF SupportedBufferTypes(caps) = <<>> THEN "IndexError"
    ELSE "ok"

\* self._buffer_type = self._supported_buffer_types[0]
DefaultBufferType(supported) == supported[1]

NoCall == <<>>
Idle == [op |-> "none", outcome |-> "none", calls |-> NoCall, pre |-> 0, arg |-> 0]

\* at_read and late are history: the selection when `formats` was read, and
\* whether a query was issued while the selection differed from it.
NoGen == [kind |-> "none", type |-> 0, pixel_format |-> "", at_read |-> 0, late |-> FALSE,
          idx |-> 0, state |-> "none", queries |-> <<>>, items |-> <<>>]

GenIds == {"g1", "g2"}

Construct(openable, caps) ==
    /\ constructed = "none"
    /\ constructed' = InitOutcome(openable, caps)
    /\ IF InitOutcome(openable, caps) = "ok"
       THEN /\ supported_buffer_types' = SupportedBufferTypes(caps)
            /\ buffer_type' = DefaultBufferType(SupportedBufferTypes(caps))
       ELSE UNCHANGED <<supported_buffer_types, buffer_type>>
    /\ last' = [Idle EXCEPT !.op = "init", !.outcome = InitOutcome(openable, caps),
                            !.calls = IF ~openable THEN NoCall
                                      ELSE <<[op |-> "query_cap", type |-> 0, errno |-> 0]>>]
    /\ UNCHANGED <<gens, discoveryVars>>

-----------------------------------------------------------------------------
(* buffer_type setter                                                      *)

\* V4l2BufferType(buffer_type) succeeds: the value is some member's value
IsBufferTypeValue(v) == v \in V4l2BufferType

\* (mutant) only the conversion to V4l2BufferType is checked
SetterRejectsNonMembers(v) == ~IsBufferTypeValue(v)

\* (mutant) every value but the current selection is refused
SetterRejectsChange(v) == v # buffer_type

\* the setter's guard: True when it raises ValueError
SetterRejects(v) ==
    \/ ~IsBufferTypeValue(v)
    \/ v \notin Range(supported_buffer_types)

SetBufferType(v) ==
    /\ constructed = "ok"
    /\ IF SetterRejects(v)
       THEN /\ UNCHANGED buffer_type
            /\ last' = [op |-> "set_buffer_type", outcome |-> "ValueError",
                        calls |-> NoCall, pre |-> buffer_type, arg |-> v]
       ELSE /\ buffer_type' = v
            /\ last' = [op |-> "set_buffer_type", outcome |-> "ok",
                        calls |-> NoCall, pre |-> buffer_type, arg |-> v]
    /\ UNCHANGED <<constructed, supported_buffer_types, gens, discoveryVars>>

-----------------------------------------------------------------------------
(* cropping accessors                                                      *)

\* (mutant) the guard is missing
CroppingCapsRejectsNever(bt) == FALSE

\* `self.buffer_type not in self.cropping_buffer_types`
CroppingCapsRejects(bt) == bt \notin Range(cropping_buffer_types)

\* cropping_capabilities: the guard, then one crop_cap ioctl; its failure
\* is not caught.
ReadCroppingCapabilities(errno) ==
    /\ constructed = "ok"
    /\ IF CroppingCapsRejects(buffer_type)
       THEN last' = [op |-> "cropping_capabilities", outcome |-> "FeatureNotSupported",
                     calls |-> NoCall, pre |-> buffer_type, arg |-> 0]
       ELSE last' = [op |-> "cropping_capabilities",
                     outcome |-> IF errno = 0 THEN "ok" ELSE "IoctlError",
                     calls |-> <<[op |-> "crop_cap", type |-> buffer_type, errno |-> errno]>>,
                     pre |-> buffer_type, arg |-> 0]
    /\ UNCHANGED <<constructed, supported_buffer_types, buffer_type, gens, discoveryVars>>

\* cropping_rectangle getter: how the call ends when get_crop ends with errno
GetCropOutcome(errno) ==
    IF errno = 0 THEN "ok"
    ELSE IF Contains(IoctlErrorStr(errno), Errno22) THEN "FeatureNotSupported"
    ELSE "IoctlError"

GetCroppingRectangle(errno) ==
    /\ constructed = "ok"
    /\ last' = [op |-> "get_cropping_rectangle", outcome |-> GetCropOutcome(errno),
                calls |-> <<[op |-> "get_crop", type |-> buffer_type, errno |-> errno]>>,
                pre |-> buffer_type, arg |-> 0]
    /\ UNCHANGED <<constructed, supported_buffer_types, buffer_type, gens, discoveryVars>>

\* cropping_rectangle setter: the except clause has no `else: raise`, so
\* an IoctlError without "Errno 25" in its text is dropped and the
\* assignment returns normally.
SetCropOutcome(errno) ==
    IF errno = 0 THEN "ok"
    ELSE IF Contains(IoctlErrorStr(errno), Errno25) THEN "FeatureNotSupported"
    ELSE "ok"

SetCroppingRectangle(errno) ==
    /\ constructed = "ok"
    /\ last' = [op |-> "set_cropping_rectangle", outcome |-> SetCropOutcome(errno),
                calls |-> <<[op |-> "set_crop", type |-> buffer_type, errno |-> errno]>>,
                pre |-> buffer_type, arg |-> 0]
    /\ UNCHANGED <<constructed, supported_buffer_types, buffer_type, gens, discoveryVars>>

-----------------------------------------------------------------------------
(* The enumeration walkers: iter_buffer_formats and V4l2Format.sizes.      *)
(* A generator record holds the generator's frame: its parameter (type or  *)
(* pixel_format), idx (the next index to query), and, as history, the      *)
(* queries it issued and the indices of the items it yielded.              *)

\* `while idx < 2**32`: the index limit, scaled down.
IndexLimit == 3

PixelFormats == {"YUYV", "MJPG"}

\* formats: `return self.iter_buffer_formats(self.buffer_type)`; the
\* argument is evaluated when the property is read.
FormatsArgument == buffer_type

ReadFormats(g) ==
    /\ constructed = "ok"
    /\ gens[g].kind = "none"
    /\ gens' = [gens EXCEPT ![g] = [NoGen EXCEPT !.kind = "formats",
                                                 !.type = FormatsArgument,
                                                 !.at_read = buffer_type,
                                                 !.state = "suspended"]]
    /\ UNCHANGED <<constructed, supported_buffer_types, buffer_type, last, discoveryVars>>

\* V4l2Format.sizes() of a format some formats generator has yielded; the
\* format's fmt_desc.pixelformat is what the kernel reported for it.
Sizes(g, pf) ==
    /\ gens[g].kind = "none"
    /\ \E f \in GenIds : gens[f].kind = "formats" /\ gens[f].items # <<>>
    /\ gens' = [gens EXCEPT ![g] = [NoGen EXCEPT !.kind = "sizes",
                                                 !.pixel_format = pf,
                                                 !.state = "suspended"]]
    /\ UNCHANGED <<constructed, supported_buffer_types, buffer_type, last, discoveryVars>>

\* (mutant) the query reads the facade's selection
EnumFmtTypeSelected(g) == buffer_type

\* enum_fmt(index=idx, type=buffer_type): buffer_type is the generator
\* function's parameter.
EnumFmtType(g) == gens[g].type

\* `except OSError`: every errno of a failed ioctl is an OSError.
CaughtAsEnd(errno) == errno \in Errnos

\* (mutant) `continue` past the failed index
AfterCaughtContinue(gen) == [gen EXCEPT !.idx = @ + 1]

\* `break`: the loop is left and the generator finishes normally.
AfterCaught(gen) == [gen EXCEPT !.state = "done"]

\* `yield ...` then `idx += 1` on resumption.
AfterYield(gen) == [gen EXCEPT !.items = Append(@, gen.idx), !.idx = @ + 1]

\* One next() on a walker whose query, if it issues one, is q and ends
\* with errno.
WalkerNext(gen, q, errno) ==
    IF ~(gen.idx < IndexLimit) THEN [gen EXCEPT !.state = "done"]
    ELSE LET asked == [gen EXCEPT !.queries = Append(@, [q EXCEPT !.errno = errno])]
         IN  IF errno = 0 THEN AfterYield(asked)
             ELSE IF CaughtAsEnd(errno) THEN AfterCaught(asked)
             ELSE [asked EXCEPT !.state = "raised"]

FormatsNext(g, errno) ==
    /\ gens[g].kind = "formats"
    /\ gens[g].state = "suspended"
    /\ gens' = [gens EXCEPT ![g] =
                  [WalkerNext(gens[g], [op |-> "enum_fmt", index |-> gens[g].idx,
                                        type |-> EnumFmtType(g), pixel_format |-> "",
                                        errno |-> 0], errno)
                   EXCEPT !.late = @ \/ (gens[g].idx < IndexLimit
                                          /\ buffer_type # gens[g].at_read)]]
    /\ UNCHANGED <<constructed, supported_buffer_types, buffer_type, last, discoveryVars>>

SizesNext(g, errno) ==
    /\ gens[g].kind = "sizes"
    /\ gens[g].state = "suspended"
    /\ gens' = [gens EXCEPT ![g] =
                  WalkerNext(gens[g], [op |-> "enum_frame_sizes", index |-> gens[g].idx,
                                       type |-> 0, pixel_format |-> gens[g].pixel_format,
                                       errno |-> 0], errno)]
    /\ UNCHANGED <<constructed, supported_buffer_types, buffer_type, last, discoveryVars>>

-----------------------------------------------------------------------------
FacadeInit ==
    /\ constructed = "none"
    /\ supported_buffer_types = <<>>
    /\ buffer_type = 0
    /\ last = Idle
    /\ gens = [g \in GenIds |-> NoGen]

DiscoveryIdle ==
    /\ fs = <<>>
    /\ dev_caps = <<>>
    /\ skip_links = TRUE
    /\ it_state = "none"
    /\ collected = <<>>
    /\ dev_list = <<>>
    /\ pos = 0
    /\ attempted = <<>>
    /\ yielded = <<>>

Init == FacadeInit /\ DiscoveryIdle

DoConstruct ==
    \/ Construct(FALSE, {})
    \/ \E caps \in SUBSET DeviceTypes : Construct(TRUE, caps)
DoSetBufferType == \E v \in SetterInputs : SetBufferType(v)
DoReadCroppingCapabilities == \E e \in IoctlOutcomes : ReadCroppingCapabilities(e)
DoGetCroppingRectangle == \E e \in IoctlOutcomes : GetCroppingRectangle(e)
DoSetCroppingRectangle == \E e \in IoctlOutcomes : SetCroppingRectangle(e)

Next ==
    \/ DoConstruct
    \/ DoSetBufferType
    \/ DoReadCroppingCapabilities
    \/ DoGetCroppingRectangle
    \/ DoSetCroppingRectangle

Spec == Init /\ [][Next]_vars

DoSelectBufferType == \E v \in DeviceTypes : SetBufferType(v)
DoReadFormats == \E g \in GenIds : ReadFormats(g)
DoFormatsNext == \E g \in GenIds, e \in IoctlOutcomes : FormatsNext(g, e)
DoSizes == \E g \in GenIds, pf \in PixelFormats : Sizes(g, pf)
DoSizesNext == \E g \in GenIds, e \in IoctlOutcomes : SizesNext(g, e)

EnumNext ==
    \/ DoConstruct
    \/ DoSelectBufferType
    \/ DoReadFormats
    \/ DoFormatsNext
    \/ DoSizes
    \/ DoSizesNext

EnumSpec == Init /\ [][EnumNext]_vars

-----------------------------------------------------------------------------
(* Device discovery: V4l2Device.iter_devices and V4l2DeviceIterator.       *)

_v4l2_device_prefixes == <<"video", "radio", "vbi", "swradio", "v4l-subdev">>

\* The names /dev may hold that match a prefix, in the directory's listing
\* order, and a device file whose name matches no prefix.
DirListing == <<"vbi0", "video1", "video0">>
DevNames == Range(DirListing)
Outside == {"media0"}

\* the prefix a name starts with
Stem(name) == CASE name \in {"video0", "video1"} -> "video"
                [] name = "vbi0" -> "vbi"
                [] OTHER -> "media"

Absent == [kind |-> "absent", target |-> ""]
RegularFile == [kind |-> "file", target |-> ""]
LinkTo(t) == [kind |-> "link", target |-> t]

\* dev.is_symlink()
IsSymlink(name) == name \in DevNames /\ fs[name].kind = "link"

\* dev.resolve(): follow links to the final path (a dangling link resolves
\* to its missing target)
RECURSIVE ResolveIn(_, _, _)
ResolveIn(f, name, fuel) ==
    IF fuel = 0 \/ name \notin DevNames \/ f[name].kind # "link" THEN name
    ELSE ResolveIn(f, f[name].target, fuel - 1)

Resolve(name) == ResolveIn(fs, name, Cardinality(DevNames))

\* no chain of links comes back to a link
NoLinkLoop(f) ==
    \A n \in DevNames :
        LET r == ResolveIn(f, n, Cardinality(DevNames))
        IN  r \in DevNames => f[r].kind # "link"

\* slash_dev.glob(prefix + "*")
Glob(prefix) ==
    SelectSeq(DirListing, LAMBDA n : fs[n].kind # "absent" /\ Stem(n) = prefix)

\* for prefix in self._v4l2_device_prefixes: extend_dev_list(...)
RECURSIVE CollectFrom(_)
CollectFrom(i) ==
    IF i > Len(_v4l2_device_prefixes) THEN <<>>
    ELSE Glob(_v4l2_device_prefixes[i]) \o CollectFrom(i + 1)

Collect == CollectFrom(1)

\* to_remove: the (1-based) positions of the redundant links
ToRemove(list) ==
    SelectSeq([i \in 1..Len(list) |-> i],
              LAMBDA i : IsSymlink(list[i]) /\ Resolve(list[i]) \in Range(list))

Reversed(s) == [i \in 1..Len(s) |-> s[Len(s) + 1 - i]]

\* (mutant) `for dev_idx in to_remove`
RemovalOrderForward(to_remove) == to_remove

\* `for dev_idx in reversed(to_remove)`
RemovalOrder(to_remove) == Reversed(to_remove)

\* del dev_list[dev_idx]
DelAt(list, i) ==
    IF i \in 1..Len(list) THEN SubSeq(list, 1, i - 1) \o SubSeq(list, i + 1, Len(list))
    ELSE list

RECURSIVE DelEach(_, _)
DelEach(list, idxs) ==
    IF idxs = <<>> THEN list ELSE DelEach(DelAt(list, Head(idxs)), Tail(idxs))

\* `if self._skip_links:` ... the list the for loop walks
RemoveLinks(list, skip) ==
    IF skip THEN DelEach(list, RemovalOrder(ToRemove(list))) ELSE list

\* How V4l2Device(dev) ends: the device opened is the one the path resolves to.
DeviceFile(name) ==
    LET r == Resolve(name)
    IN  IF r \in DevNames /\ fs[r].kind # "file" THEN [openable |-> FALSE, caps |-> {}]
        ELSE dev_caps[r]

ConstructOutcome(name) == InitOutcome(DeviceFile(name).openable, DeviceFile(name).caps)

\* (mutant) a bare `except:`
SkippedAnyFailure(outcome) == outcome # "ok"

\* `except OSError: continue`
SkippedByDiscovery(outcome) == outcome = "OSError"

\* the first position after p whose construction is not skipped; Len + 1 if none
RECURSIVE FirstNotSkipped(_, _)
FirstNotSkipped(list, p) ==
    IF p + 1 > Len(list) THEN Len(list) + 1
    ELSE IF SkippedByDiscovery(ConstructOutcome(list[p + 1])) THEN FirstNotSkipped(list, p + 1)
    ELSE p + 1

\* V4l2Device.iter_devices(skip_links)
IterDevices(skip) ==
    /\ it_state = "none"
    /\ it_state' = "created"
    /\ skip_links' = skip
    /\ UNCHANGED <<fs, dev_caps, collected, dev_list, pos, attempted, yielded, facadeVars>>

\* One next() on the generator of __iter__: on the first, the glob and the
\* link removal; then construction attempts up to the next yield, the end
\* of the list, or an exception that is not caught.
DiscoveryNext ==
    /\ it_state \in {"created", "running"}
    /\ LET globbed == IF it_state = "created" THEN Collect ELSE collected
           list == IF it_state = "created" THEN RemoveLinks(Collect, skip_links) ELSE dev_list
           j == FirstNotSkipped(list, pos)
           upto == IF j > Len(list) THEN Len(list) ELSE j
       IN  /\ collected' = globbed
           /\ dev_list' = list
           /\ pos' = upto
           /\ attempted' = attempted \o SubSeq(list, pos + 1, upto)
           /\ IF j > Len(list)
              THEN it_state' = "done" /\ UNCHANGED yielded
              ELSE IF ConstructOutcome(list[j]) = "ok"
              THEN it_state' = "running" /\ yielded' = Append(yielded, list[j])
              ELSE it_state' = "raised" /\ UNCHANGED yielded
    /\ UNCHANGED <<fs, dev_caps, skip_links, facadeVars>>

DeviceStates ==
    { [openable |-> FALSE, caps |-> {}],
      [openable |-> TRUE, caps |-> {}],
      [openable |-> TRUE, caps |-> {BT("VIDEO_CAPTURE")}] }

FsEntries(n) == {Absent, RegularFile} \cup {LinkTo(t) : t \in (DevNames \cup Outside) \ {n}}

DiscoveryWorld ==
    /\ fs \in [DevNames -> UNION {FsEntries(n) : n \in DevNames}]
    /\ \A n \in DevNames : fs[n] \in FsEntries(n)
    /\ NoLinkLoop(fs)
    /\ dev_caps \in [DevNames \cup Outside -> DeviceStates]
    /\ \A n \in DevNames : fs[n].kind # "file" => dev_caps[n] = [openable |-> FALSE, caps |-> {}]
    /\ skip_links = TRUE
    /\ it_state = "none"
    /\ collected = <<>>
    /\ dev_list = <<>>
    /\ pos = 0
    /\ attempted = <<>>
    /\ yielded = <<>>

DoIterDevices == \E skip \in BOOLEAN : IterDevices(skip)

DiscoveryStep ==
    \/ DoIterDevices
    \/ DiscoveryNext

DiscoveryInit == FacadeInit /\ DiscoveryWorld

DiscoverySpec == DiscoveryInit /\ [][DiscoveryStep]_vars

-----------------------------------------------------------------------------
(* Properties                                                              *)

\* C1: the selected buffer type of a constructed facade is a member of
\* supported_buffer_types in every reachable state, and right after
\* construction it is the first supported entry.
C1_SelectedIsSupported ==
    constructed = "ok" =>
        /\ supported_buffer_types # <<>>
        /\ buffer_type \in Range(supported_buffer_types)
        /\ last.op = "init" => buffer_type = supported_buffer_types[1]

\* an accepted change away from the default, then a rejected assignment
C1_Witness ==
    /\ constructed = "ok"
    /\ last.op = "set_buffer_type"
    /\ last.outcome = "ValueError"
    /\ buffer_type # supported_buffer_types[1]

\* C2: assigning an unsupported value raises ValueError, leaves the
\* selection as it was and issues no ioctl; assigning a supported value
\* replaces the selection and issues no ioctl.
C2_SetterContract ==
    last.op = "set_buffer_type" =>
        /\ last.calls = <<>>
        /\ IF last.arg \in Range(supported_buffer_types)
           THEN last.outcome = "ok" /\ buffer_type = last.arg
           ELSE last.outcome = "ValueError" /\ buffer_type = last.pre

\* a member of V4l2BufferType the device does not support was refused
\* while a non-default selection was in place
C2_Witness ==
    /\ last.op = "set_buffer_type"
    /\ last.arg \in V4l2BufferType
    /\ last.arg \notin Range(supported_buffer_types)
    /\ last.outcome = "ValueError"
    /\ last.pre # supported_buffer_types[1]

\* C3 (as claimed): an enumeration ends normally only on errno 22 (EINVAL);
\* a query that fails with another errno makes the generator raise.
C3_OnlyInvalidArgumentEnds ==
    \A g \in GenIds :
        (gens[g].queries # <<>> /\ gens[g].queries[Len(gens[g].queries)].errno \notin {0, 22})
            => gens[g].state = "raised"

\* C4: a walker queries indices 0, 1, 2, ... once each, yields the item of
\* each successful query in that order, and after the first failing query
\* at index k it has yielded exactly the items 0..k-1, has ended, and has
\* issued no further query.
C4_WalkerOrder ==
    \A g \in GenIds :
        LET gen == gens[g]
            n == Len(gen.queries)
            ok == IF n > 0 /\ gen.queries[n].errno # 0 THEN n - 1 ELSE n
        IN  /\ \A i \in 1..n : gen.queries[i].index = i - 1
            /\ \A i \in 1..(n - 1) : gen.queries[i].errno = 0
            /\ gen.items = [i \in 1..ok |-> i - 1]
            /\ ok < n => gen.state \in {"done", "raised"}

\* indices 0 and 1 succeeded, index 2 failed: two items, ended
C4_Witness ==
    \E g \in GenIds :
        /\ Len(gens[g].queries) = 3
        /\ gens[g].queries[3].errno # 0
        /\ gens[g].items = <<0, 1>>
        /\ gens[g].state = "done"

\* C5: cropping_capabilities outside the five cropping buffer types raises
\* FeatureNotSupported without an ioctl; inside, it issues exactly one
\* crop_cap call for the selected buffer type.
C5_CroppingCapabilities ==
    last.op = "cropping_capabilities" =>
        IF buffer_type \in {BT("VIDEO_CAPTURE"), BT("VIDEO_CAPTURE_MPLANE"), BT("VIDEO_OUTPUT"),
                            BT("VIDEO_OUTPUT_MPLANE"), BT("VIDEO_OVERLAY")}
        THEN /\ Len(last.calls) = 1
             /\ last.calls[1].op = "crop_cap"
             /\ last.calls[1].type = buffer_type
             /\ last.outcome # "FeatureNotSupported"
        ELSE /\ last.calls = <<>>
             /\ last.outcome = "FeatureNotSupported"

\* read while VBI_CAPTURE, selected by an assignment, is the buffer type
C5_Witness ==
    /\ last.op = "cropping_capabilities"
    /\ buffer_type = BT("VBI_CAPTURE")
    /\ buffer_type # supported_buffer_types[1]
    /\ last.outcome = "FeatureNotSupported"

\* C6 (as claimed): a failed get_crop / set_crop ends in FeatureNotSupported
\* for the accessor's recognised errno (22 on get, 25 on set) and in the
\* propagated I/O error for any other errno; it never returns normally.
C6_FailedCropNeverReturns ==
    (last.op \in {"get_cropping_rectangle", "set_cropping_rectangle"} /\ last.calls[1].errno # 0)
        => last.outcome =
              IF last.calls[1].errno = (IF last.op = "get_cropping_rectangle" THEN 22 ELSE 25)
              THEN "FeatureNotSupported" ELSE "IoctlError"

\* C7: with skip_links the list walked is the globbed list without exactly
\* the symbolic links whose resolved target is in the globbed list, in the
\* original order; without skip_links it is the globbed list.
C7_LinkRemoval ==
    it_state \in {"running", "done", "raised"} =>
        dev_list = IF skip_links
                   THEN SelectSeq(collected,
                                  LAMBDA d : ~(fs[d].kind = "link" /\ Resolve(d) \in Range(collected)))
                   ELSE collected

\* two links removed, their target kept
C7_Witness ==
    /\ it_state \in {"running", "done", "raised"}
    /\ skip_links
    /\ Len(collected) = 3
    /\ Len(dev_list) = 1

\* C8: construction is attempted for the candidates in list order; the
\* facades yielded are those whose construction succeeded, in that order;
\* OSError candidates are skipped and the walk goes on; any other failure
\* propagates and ends the walk.
C8_DiscoveryAttempts ==
    it_state \in {"running", "done", "raised"} =>
        LET n == Len(attempted)
        IN  /\ attempted = SubSeq(dev_list, 1, n)
            /\ yielded = SelectSeq(attempted, LAMBDA d : ConstructOutcome(d) = "ok")
            /\ \A i \in 1..(n - 1) : ConstructOutcome(attempted[i]) \in {"ok", "OSError"}
            /\ it_state = "running" => n > 0 /\ ConstructOutcome(attempted[n]) = "ok"
            /\ it_state = "done" =>
                   /\ attempted = dev_list
                   /\ n > 0 => ConstructOutcome(attempted[n]) \in {"ok", "OSError"}
            /\ it_state = "raised" =>
                   n > 0 /\ ConstructOutcome(attempted[n]) \notin {"ok", "OSError"}

\* a candidate that raised OSError was skipped and a later one was yielded
C8_Witness ==
    /\ it_state = "done"
    /\ \E i, j \in 1..Len(attempted) :
          /\ i < j
          /\ ConstructOutcome(attempted[i]) = "OSError"
          /\ ConstructOutcome(attempted[j]) = "ok"
          /\ attempted[j] \in Range(yielded)

\* C9 (as claimed): with skip_links no two facades yielded by one pass
\* resolve to the same device file.
C9_EveryDeviceOnce ==
    skip_links =>
        \A i, j \in 1..Len(yielded) :
            i < j => Resolve(yielded[i]) # Resolve(yielded[j])

\* C10: every enum_fmt query of a formats enumeration carries the buffer
\* type that was selected when `formats` was read, whatever is selected
\* when the query is issued; each enumeration's items come from its own
\* queries.
C10_FormatsUseTypeAtRead ==
    \A g \in GenIds :
        gens[g].kind = "formats" =>
            /\ \A i \in 1..Len(gens[g].queries) :
                  /\ gens[g].queries[i].op = "enum_fmt"
                  /\ gens[g].queries[i].type = gens[g].at_read
            /\ Len(gens[g].items) =
                  Cardinality({i \in 1..Len(gens[g].queries) : gens[g].queries[i].errno = 0})

\* an enumeration that queried after the selection changed, and a second
\* one, obtained after the change, that queried too
C10_Witness ==
    \E g, h \in GenIds :
        /\ gens[g].kind = "formats" /\ gens[h].kind = "formats"
        /\ gens[g].late
        /\ Len(gens[g].queries) >= 2
        /\ gens[h].at_read = buffer_type
        /\ gens[h].at_read # gens[g].at_read
        /\ gens[h].queries # <<>>

====
